---- MODULE Spec2Model ----
(***************************************************************************)
(* H1 OKR performance tracker (src/app.py): a Streamlit script that reads  *)
(* three secrets, fetches the TKTS tickets through a one-hour cache,       *)
(* normalises them into a table and computes one assignee's share of the   *)
(* closed tickets per category.                                            *)
(*                                                                         *)
(* Python strings are sequences of one-character strings, so that          *)
(* str.lower(), the case-insensitive search of str.contains() and the      *)
(* ordering used by sorted() are computed and not assumed.                 *)
(***************************************************************************)
EXTENDS Integers, Sequences, FiniteSets, TLC

\* ------------------------------------------------------------------ bounds
MaxIssues == 2          \* issues per response in the calculation runs
BulkTotal == 80         \* issues of the large responses in the calculation runs
MaxFlowIssues == 1      \* issues per response in the cached dashboard runs
MaxTime == 4800         \* the clock stops advancing here (seconds)
TickStep == 1200        \* seconds between two observations of the clock
MaxCalls == 3           \* network calls after which no further fetch is modelled

\* ----------------------------------------------------------------- strings
\* The characters in use, in increasing code point order.
Alphabet ==
    << " ", "%", "-", ".",
       "0", "1", "2", "3", "4", "5", "6", "7", "8", "9",
       "A", "B", "C", "D", "E", "F", "G", "H", "I", "J", "K", "L", "M",
       "N", "O", "P", "Q", "R", "S", "T", "U", "V", "W", "X", "Y", "Z",
       "a", "b", "c", "d", "e", "f", "g", "h", "i", "j", "k", "l", "m",
       "n", "o", "p", "q", "r", "s", "t", "u", "v", "w", "x", "y", "z" >>

Chars == { Alphabet[i] : i \in 1..Len(Alphabet) }

\* The rank of each character in code point order.
OrdTable == [c \in Chars |-> CHOOSE i \in 1..Len(Alphabet) : Alphabet[i] = c]

Ord(c) == OrdTable[c]

\* str.lower() on one character: A-Z go to a-z, the rest is unchanged.
LowerTable ==
    [c \in Chars |->
        IF OrdTable[c] >= OrdTable["A"] /\ OrdTable[c] <= OrdTable["Z"]
        THEN Alphabet[OrdTable[c] + (OrdTable["a"] - OrdTable["A"])]
        ELSE c]

LowerChar(c) == LowerTable[c]

\* str.lower()
Lower(s) == [i \in 1..Len(s) |-> LowerChar(s[i])]

\* s < t for Python strings: lexicographic on code points.
RECURSIVE StrLess(_, _)
StrLess(s, t) ==
    IF t = << >> THEN FALSE
    ELSE IF s = << >> THEN TRUE
    ELSE IF s[1] # t[1] THEN Ord(s[1]) < Ord(t[1])
    ELSE StrLess(Tail(s), Tail(t))

\* re.IGNORECASE match of the literal pattern pat at position i of s.
MatchAt(s, pat, i) ==
    \A k \in 1..Len(pat) : LowerChar(s[i + k - 1]) = LowerChar(pat[k])

\* regex.search(s) for a literal pattern, scanning the start positions
\* left to right.
RECURSIVE SearchFrom(_, _, _)
SearchFrom(s, pat, i) ==
    IF i + Len(pat) - 1 > Len(s) THEN FALSE
    ELSE IF MatchAt(s, pat, i) THEN TRUE
    ELSE SearchFrom(s, pat, i + 1)

\* Series.str.contains(pat, case=False) on one value.
StrContains(s, pat) == SearchFrom(s, pat, 1)

\* Decimal digits of a natural number.
RECURSIVE DecStr(_)
DecStr(n) ==
    IF n < 10 THEN << Alphabet[Ord("0") + n] >>
    ELSE DecStr(n \div 10) \o << Alphabet[Ord("0") + (n % 10)] >>

\* ------------------------------------------------------------ the tracker
\* JSON null.
Null == [null |-> TRUE]

Alice == << "A", "l", "i", "c", "e" >>
Bob == << "B", "o", "b" >>
Unassigned == << "U", "n", "a", "s", "s", "i", "g", "n", "e", "d" >>

TypeAnzDisplay == << "A", "N", "Z", " ", "-", " ", "D", "i", "s", "p", "l", "a", "y" >>
TypeUkDisplay == << "U", "K", " ", "-", " ", "D", "i", "s", "p", "l", "a", "y" >>
TypeVideo == << "V", "i", "d", "e", "o" >>
TypeBespokePixel == << "b", "e", "s", "p", "o", "k", "e", " ", "P", "I", "X", "E", "L" >>
TypeDisplayVideoLower == << "d", "i", "s", "p", "l", "a", "y", " ", "v", "i", "d", "e", "o" >>
TypeBug == << "B", "u", "g" >>

StatusDone == << "D", "o", "n", "e" >>
StatusOpen == << "O", "p", "e", "n" >>
StatusClosed == << "C", "l", "o", "s", "e", "d" >>
StatusResolvedUpper == << "R", "E", "S", "O", "L", "V", "E", "D" >>

\* The 'fields' objects the tracker may return for one issue.
IssueFields(types, assignees, statuses) ==
    { [issuetype |-> [name |-> t], assignee |-> a, status |-> [name |-> s]] :
        t \in types, a \in assignees, s \in statuses }

CalcFields ==
    IssueFields({TypeAnzDisplay, TypeDisplayVideoLower, TypeBespokePixel, TypeBug},
                {Null, [displayName |-> Alice]},
                {StatusDone, StatusOpen, StatusClosed, StatusResolvedUpper})

FlowFields ==
    IssueFields({TypeAnzDisplay},
                {Null, [displayName |-> Alice]},
                {StatusDone})

\* A large response: BulkTotal Display tickets of Alice, the first k Done.
BulkFields(k) ==
    [i \in 1..BulkTotal |->
        [issuetype |-> [name |-> TypeAnzDisplay],
         assignee |-> [displayName |-> Alice],
         status |-> [name |-> IF i <= k THEN StatusDone ELSE StatusOpen]]]

SeqsUpTo(S, n) == UNION { [1..k -> S] : k \in 0..n }

\* The tracker assigns the keys TKTS-1, TKTS-2, ... ; they are unique.
IssueKey(i) == << "T", "K", "T", "S", "-" >> \o DecStr(i)

IssuesOf(fs) == [i \in 1..Len(fs) |-> [key |-> IssueKey(i), fields |-> fs[i]]]

\* Response bodies: text that is not JSON, a JSON object without 'issues',
\* a JSON object with an 'issues' array.
NotJson == [text |-> TRUE]
JsonNoIssues == [errorMessages |-> << >>]

Bodies(fields, n) ==
    {NotJson, JsonNoIssues} \cup { [issues |-> IssuesOf(fs)] : fs \in SeqsUpTo(fields, n) }

HttpStatuses == {200, 304, 404, 503}

Responses(fields, n) == [status : HttpStatuses, body : Bodies(fields, n)]

CalcResponses ==
    [status : {200},
     body : Bodies(CalcFields, MaxIssues)
              \cup { [issues |-> IssuesOf(BulkFields(k))] : k \in 0..BulkTotal }]
FlowResponses == Responses(FlowFields, MaxFlowIssues)

\* ------------------------------------------------------- program constants
RequiredSecrets == {"JIRA_DOMAIN", "JIRA_USER_EMAIL", "JIRA_API_TOKEN"}
TTL == 3600
goal_value == 20
Display == << "D", "i", "s", "p", "l", "a", "y" >>
Video == << "V", "i", "d", "e", "o" >>
Pixel == << "P", "i", "x", "e", "l" >>
Bespoke == << "B", "e", "s", "p", "o", "k", "e" >>
Categories == << Display, Video, Pixel, Bespoke >>
ClosedStatuses ==
    { << "c", "l", "o", "s", "e", "d" >>,
      << "d", "o", "n", "e" >>,
      << "r", "e", "s", "o", "l", "v", "e", "d" >> }

\* The browser sessions of the one Streamlit process; each runs the script
\* in a thread of its own against the process-wide cache.
Sessions == {"s1", "s2"}

\* ------------------------------------------------------------------- state
VARIABLES
    secrets,              \* the keys present in st.secrets
    now,                  \* the clock of the cache, in seconds
    cache,                \* the entry of st.cache_data for load_h1_data
    lock,                 \* the session computing the missing entry, or "free"
    netCalls,             \* requests.post calls made since the process started
    pc,                   \* position of each session's script run
    ran,                  \* what the script run has executed so far
    error,                \* the exception that ended the script run
    runCalls,             \* requests.post calls made by the script run
    response,             \* the response of the run's requests.post
    df,                   \* the DataFrame bound by the script run
    warning,              \* st.warning was shown
    team_members,
    selected_user,
    total_display_pool,
    user_closed_display,
    share_percentage,
    metric_value,         \* the value shown by st.metric
    bar_color,
    summary

vars ==
    << secrets, now, cache, lock, netCalls, pc, ran, error, runCalls, response,
       df, warning, team_members, selected_user, total_display_pool,
       user_closed_display, share_percentage, metric_value, bar_color, summary >>

runVars ==
    << ran, error, runCalls, response, df, warning, team_members,
       selected_user, total_display_pool, user_closed_display,
       share_percentage, metric_value, bar_color, summary >>

calcVars ==
    << team_members, selected_user, total_display_pool, user_closed_display,
       share_percentage, metric_value, bar_color, summary >>

NoCache == [valid |-> FALSE, value |-> << >>, at |-> 0]
NoResponse == [status |-> 0, body |-> NotJson]
NoFrame == [bound |-> FALSE, rows |-> << >>]
NoError == "none"

\* -------------------------------------------------------- load_h1_data body
\* Response.raise_for_status(): HTTPError for 4xx and 5xx, nothing otherwise.
RaisesForStatus5xxOnly(status) == status >= 500 /\ status < 600

RaisesForStatus(status) == status >= 400 /\ status < 600

\* response.json() raises when the body is not JSON.
JsonFails(body) == body = NotJson

\* response.json().get('issues', [])
GetIssues(body) == IF "issues" \in DOMAIN body THEN body.issues ELSE << >>

\* f['status']['name'].lower() in ["closed", "done", "resolved"]
IsClosedNoLower(name) == name \in ClosedStatuses

IsClosed(name) == Lower(name) \in ClosedStatuses

\* f['assignee']['displayName'] if f['assignee'] else "Unassigned"
AssigneeOfNoSentinel(f) ==
    IF f.assignee # Null THEN f.assignee.displayName ELSE << >>

AssigneeOf(f) ==
    IF f.assignee # Null THEN f.assignee.displayName ELSE Unassigned

\* The dict appended for one issue.
IssueRow(i) ==
    [ key |-> i.key,
      type |-> i.fields.issuetype.name,
      assignee |-> AssigneeOf(i.fields),
      status |-> i.fields.status.name,
      is_closed |-> IsClosed(i.fields.status.name) ]

\* pd.DataFrame(issues): one row per issue, in the order of the response.
Normalize(issues) == [k \in 1..Len(issues) |-> IssueRow(issues[k])]

\* The st.cache_data entry is served while it is younger than ttl.
CacheFreshForever(c, t) == c.valid

CacheFreshMinutes(c, t) == c.valid /\ t - c.at < TTL \div 60

CacheFresh(c, t) == c.valid /\ t - c.at < TTL

\* ------------------------------------------------------------- calculation
\* df.empty
DfEmptyNever(rows) == FALSE

DfEmpty(rows) == Len(rows) = 0

\* Series.unique(): the distinct values in order of first appearance.
Unique(col) ==
    LET first == SelectSeq([k \in 1..Len(col) |-> k],
                           LAMBDA k : \A j \in 1..(k - 1) : col[j] # col[k])
    IN  [i \in 1..Len(first) |-> col[first[i]]]

\* sorted(): ascending, by insertion.
RECURSIVE Insert(_, _)
Insert(x, sorted) ==
    IF sorted = << >> THEN << x >>
    ELSE IF StrLess(x, sorted[1]) THEN << x >> \o sorted
    ELSE << sorted[1] >> \o Insert(x, Tail(sorted))

RECURSIVE Sorted(_)
Sorted(xs) == IF xs = << >> THEN << >> ELSE Insert(xs[1], Sorted(Tail(xs)))

\* sorted(df['assignee'].unique())
TeamMembers(rows) == Sorted(Unique([k \in 1..Len(rows) |-> rows[k].assignee]))

\* df[df['type'].str.contains("Display", case=False)]
DisplayDfCaseSensitive(rows) ==
    SelectSeq(rows, LAMBDA r :
        \E i \in 1..(Len(r.type) - Len(Display) + 1) :
            \A k \in 1..Len(Display) : r.type[i + k - 1] = Display[k])

DisplayDf(rows) == SelectSeq(rows, LAMBDA r : StrContains(r.type, Display))

\* df[df['type'].str.contains(cat, case=False)]
CatPoolPrefixOnly(rows, cat) ==
    SelectSeq(rows, LAMBDA r : Len(r.type) >= Len(cat) /\ MatchAt(r.type, cat, 1))

CatPool(rows, cat) == SelectSeq(rows, LAMBDA r : StrContains(r.type, cat))

\* len(pool[(pool['assignee'] == selected_user) & (pool['is_closed'])])
UserClosed(pool, user) ==
    Len(SelectSeq(pool, LAMBDA r : r.assignee = user /\ r.is_closed))

\* ---------------------------------------------------- binary64 arithmetic
\* A positive Python float is kept as the exponent e of its leading bit and
\* the 52 bits after the leading bit, in four limbs of 13 bits, most
\* significant first: the value is
\*     (2^52 + l[1]*2^39 + l[2]*2^26 + l[3]*2^13 + l[4]) * 2^(e - 52).
\* The operators are exact for operands below 2^17, which covers the
\* counts of a response (maxResults = 1000).
Limb == 8192

FloatZero == [zero |-> TRUE, e |-> 0, l |-> << 0, 0, 0, 0 >>]

RECURSIVE Pow2(_)
Pow2(n) == IF n <= 0 THEN 1 ELSE 2 * Pow2(n - 1)

\* The number of binary digits of a natural number.
RECURSIVE BitLength(_)
BitLength(n) == IF n = 0 THEN 0 ELSE 1 + BitLength(n \div 2)

\* The significand l plus one unit in the last place; a carry out of the
\* leading bit moves to the next exponent.
Successor(l, e) ==
    IF l[4] + 1 < Limb THEN [zero |-> FALSE, e |-> e, l |-> << l[1], l[2], l[3], l[4] + 1 >>]
    ELSE IF l[3] + 1 < Limb THEN [zero |-> FALSE, e |-> e, l |-> << l[1], l[2], l[3] + 1, 0 >>]
    ELSE IF l[2] + 1 < Limb THEN [zero |-> FALSE, e |-> e, l |-> << l[1], l[2] + 1, 0, 0 >>]
    ELSE IF l[1] + 1 < Limb THEN [zero |-> FALSE, e |-> e, l |-> << l[1] + 1, 0, 0, 0 >>]
    ELSE [zero |-> FALSE, e |-> e + 1, l |-> << 0, 0, 0, 0 >>]

\* Round to nearest, ties to even: half is the first dropped bit, more
\* says whether a later dropped bit is set.
Rounded(l, e, half, more) ==
    IF half /\ (more \/ l[4] % 2 = 1)
    THEN Successor(l, e)
    ELSE [zero |-> FALSE, e |-> e, l |-> l]

\* The least k with a * 2^k >= b.
RECURSIVE ShiftUp(_, _)
ShiftUp(a, b) == IF a >= b THEN 0 ELSE 1 + ShiftUp(2 * a, b)

\* The greatest j with b * 2^j <= a.
RECURSIVE ShiftDown(_, _)
ShiftDown(a, b) == IF 2 * b > a THEN 0 ELSE 1 + ShiftDown(a, 2 * b)

\* n / d for d <= n < 2 * d: the leading bit is 1, the next 52 bits come
\* from four steps of long division in base 2^13.
Quotient(n, d, e) ==
    LET r0 == n - d
        q1 == (r0 * Limb) \div d
        r1 == (r0 * Limb) % d
        q2 == (r1 * Limb) \div d
        r2 == (r1 * Limb) % d
        q3 == (r2 * Limb) \div d
        r3 == (r2 * Limb) % d
        q4 == (r3 * Limb) \div d
        r4 == (r3 * Limb) % d
    IN  Rounded(<< q1, q2, q3, q4 >>, e, 2 * r4 >= d, r4 # 0 /\ 2 * r4 # d)

\* a / b for naturals a and b > 0: true division, correctly rounded.
FloatDiv(a, b) ==
    IF a = 0 THEN FloatZero
    ELSE IF a < b
    THEN Quotient(a * Pow2(ShiftUp(a, b)), b, 0 - ShiftUp(a, b))
    ELSE Quotient(a, b * Pow2(ShiftDown(a, b)), ShiftDown(a, b))

\* The exact product of the significand of x and a small natural c:
\* top * 2^52 + l[1] * 2^39 + ... + l[4].
Product(x, c) ==
    LET v4 == x.l[4] * c
        v3 == x.l[3] * c + v4 \div Limb
        v2 == x.l[2] * c + v3 \div Limb
        v1 == x.l[1] * c + v2 \div Limb
    IN  [top |-> c + v1 \div Limb,
         l |-> << v1 % Limb, v2 % Limb, v3 % Limb, v4 % Limb >>]

\* x * c for a float x and a natural c with 0 < c < 2^12, correctly rounded.
FloatMul(x, c) ==
    IF x.zero THEN FloatZero
    ELSE LET p == Product(x, c)
             s == BitLength(p.top) - 1
             lo == Pow2(s)
             up == Limb \div lo
             dropped == p.l[4] % lo
         IN  IF s = 0 THEN [zero |-> FALSE, e |-> x.e, l |-> p.l]
             ELSE Rounded(<< (p.top % lo) * up + p.l[1] \div lo,
                             (p.l[1] % lo) * up + p.l[2] \div lo,
                             (p.l[2] % lo) * up + p.l[3] \div lo,
                             (p.l[3] % lo) * up + p.l[4] \div lo >>,
                          x.e + s,
                          dropped >= lo \div 2,
                          dropped % (lo \div 2) # 0)

\* The integer part of a float below 2^13.
FloatFloor(x) ==
    IF x.zero \/ x.e < 0 THEN 0 ELSE (Limb + x.l[1]) \div Pow2(13 - x.e)

\* A float below 2^13 is a whole number.
FloatIsWhole(x) ==
    \/ x.zero
    \/ /\ x.e >= 0
       /\ (Limb + x.l[1]) % Pow2(13 - x.e) = 0
       /\ x.l[2] = 0 /\ x.l[3] = 0 /\ x.l[4] = 0

\* x >= n for a natural n.
FloatAtLeast(x, n) == FloatFloor(x) >= n

\* x <= n for a natural n.
FloatAtMost(x, n) == FloatFloor(x) < n \/ (FloatFloor(x) = n /\ FloatIsWhole(x))

\* round(x * 10) to the nearest integer, ties to even, on the exact value
\* of the float x (x < 800): the rounding of "{:.1f}".
Tenths(x) ==
    IF x.zero THEN 0
    ELSE LET p == Product(x, 10)
             hi == p.top * Limb + p.l[1]
             g == 13 - x.e
             whole == hi \div Pow2(g)
             rest == hi % Pow2(g)
             low == p.l[2] # 0 \/ p.l[3] # 0 \/ p.l[4] # 0
             half == IF g >= 1 THEN rest >= Pow2(g - 1) ELSE p.l[2] >= Limb \div 2
             more == IF g >= 1 THEN rest % Pow2(g - 1) # 0 \/ low
                     ELSE p.l[2] % (Limb \div 2) # 0 \/ p.l[3] # 0 \/ p.l[4] # 0
         IN  IF half /\ (more \/ whole % 2 = 1) THEN whole + 1 ELSE whole

\* (completed / total * 100) if total > 0 else 0
Share(completed, total) ==
    IF total > 0 THEN FloatMul(FloatDiv(completed, total), 100) ELSE FloatZero

\* f"{x:.1f}%"
FormatPercent(x) ==
    DecStr(Tenths(x) \div 10) \o << "." >> \o DecStr(Tenths(x) % 10) \o << "%" >>

\* '#00CC66' if share_percentage >= goal_value else '#FF9933'
BarColor(x) == IF FloatAtLeast(x, goal_value) THEN "#00CC66" ELSE "#FF9933"

\* The dict appended to summary for one category.
SummaryRowUserFromDf(rows, user, cat) ==
    LET cat_pool == CatPool(rows, cat)
        total_cat == Len(cat_pool)
        user_cat == UserClosed(rows, user)
        perc == Share(user_cat, total_cat)
    IN  ("Category" :> cat) @@ ("Team Total" :> total_cat) @@
        ("Your Completed" :> user_cat) @@
        ("Current Share %" :> FormatPercent(perc))

SummaryRow(rows, user, cat) ==
    LET cat_pool == CatPool(rows, cat)
        total_cat == Len(cat_pool)
        user_cat == UserClosed(cat_pool, user)
        perc == Share(user_cat, total_cat)
    IN  ("Category" :> cat) @@ ("Team Total" :> total_cat) @@
        ("Your Completed" :> user_cat) @@
        ("Current Share %" :> FormatPercent(perc))

\* ------------------------------------------------------------------ script
Init ==
    /\ secrets \in SUBSET RequiredSecrets
    /\ now = 0
    /\ cache = NoCache
    /\ lock = "free"
    /\ netCalls = 0
    /\ pc = [s \in Sessions |-> "config"]
    /\ ran = [s \in Sessions |-> {}]
    /\ error = [s \in Sessions |-> NoError]
    /\ runCalls = [s \in Sessions |-> 0]
    /\ response = [s \in Sessions |-> NoResponse]
    /\ df = [s \in Sessions |-> NoFrame]
    /\ warning = [s \in Sessions |-> FALSE]
    /\ team_members = [s \in Sessions |-> << >>]
    /\ selected_user = [s \in Sessions |-> << >>]
    /\ total_display_pool = [s \in Sessions |-> 0]
    /\ user_closed_display = [s \in Sessions |-> 0]
    /\ share_percentage = [s \in Sessions |-> FloatZero]
    /\ metric_value = [s \in Sessions |-> << >>]
    /\ bar_color = [s \in Sessions |-> "none"]
    /\ summary = [s \in Sessions |-> << >>]

\* st.secrets[...] raises for a key that is absent.
SecretsReadableTwoOnly(present) == {"JIRA_DOMAIN", "JIRA_USER_EMAIL"} \subseteq present

SecretsReadable(present) == RequiredSecrets \subseteq present

\* JIRA_DOMAIN, JIRA_USER_EMAIL, JIRA_API_TOKEN = st.secrets[...]
ReadSecrets(s) ==
    /\ pc[s] = "config"
    /\ IF SecretsReadable(secrets)
       THEN /\ pc' = [pc EXCEPT ![s] = "load"]
            /\ ran' = [ran EXCEPT ![s] = @ \cup {"secrets"}]
            /\ error' = error
       ELSE /\ pc' = [pc EXCEPT ![s] = "failed"]
            /\ ran' = ran
            /\ error' = [error EXCEPT ![s] = "KeyError"]
    /\ UNCHANGED << secrets, now, cache, lock, netCalls, runCalls, response,
                    df, warning, calcVars >>

\* df = load_h1_data(): the wrapper of @st.cache_data(ttl=3600) reads the
\* entry first.  An entry younger than ttl is returned without running the
\* body; otherwise the session goes on to compute the value.
CacheRead(s) ==
    /\ pc[s] = "load"
    /\ IF CacheFresh(cache, now)
       THEN /\ df' = [df EXCEPT ![s] = [bound |-> TRUE, rows |-> cache.value]]
            /\ pc' = [pc EXCEPT ![s] = "branch"]
            /\ ran' = [ran EXCEPT ![s] = @ \cup {"hit"}]
       ELSE /\ pc' = [pc EXCEPT ![s] = "lock"]
            /\ UNCHANGED << df, ran >>
    /\ UNCHANGED << secrets, now, cache, lock, netCalls, error, runCalls,
                    response, warning, calcVars >>

\* The wrapper computes a missing value under the lock of its key: the
\* session waits until the lock is free, reads the entry again, and only
\* when it is still missing runs the body up to requests.post(...), which
\* blocks until the response arrives.
SendRequest(s) ==
    /\ pc[s] = "lock"
    /\ lock = "free"
    /\ IF CacheFresh(cache, now)
       THEN /\ df' = [df EXCEPT ![s] = [bound |-> TRUE, rows |-> cache.value]]
            /\ pc' = [pc EXCEPT ![s] = "branch"]
            /\ ran' = [ran EXCEPT ![s] = @ \cup {"hit"}]
            /\ UNCHANGED << lock, netCalls, runCalls >>
       ELSE /\ netCalls < MaxCalls
            /\ lock' = s
            /\ netCalls' = netCalls + 1
            /\ runCalls' = [runCalls EXCEPT ![s] = @ + 1]
            /\ pc' = [pc EXCEPT ![s] = "posting"]
            /\ ran' = [ran EXCEPT ![s] =
                          @ \cup {"post"} \cup (IF cache.valid THEN {"expired"} ELSE {})]
            /\ df' = df
    /\ UNCHANGED << secrets, now, cache, error, response, warning, calcVars >>

\* requests.post raises these when no response is received.
TransportErrors == {"ConnectionError", "Timeout"}

\* The rest of the body of load_h1_data, from the return of requests.post:
\* the transport fails, or a response arrives and raise_for_status(),
\* json() and the normalisation run.  A returned table is stored with the
\* time of the store; an exception stores nothing.  Either way the lock is
\* released.
load_h1_data(s, responses) ==
    /\ pc[s] = "posting"
    /\ lock' = "free"
    /\ \/ \E e \in TransportErrors :
            /\ error' = [error EXCEPT ![s] = e]
            /\ pc' = [pc EXCEPT ![s] = "failed"]
            /\ UNCHANGED << response, cache, df >>
       \/ \E resp \in responses :
            /\ response' = [response EXCEPT ![s] = resp]
            /\ IF RaisesForStatus(resp.status)
               THEN /\ error' = [error EXCEPT ![s] = "HTTPError"]
                    /\ pc' = [pc EXCEPT ![s] = "failed"]
                    /\ UNCHANGED << cache, df >>
               ELSE IF JsonFails(resp.body)
               THEN /\ error' = [error EXCEPT ![s] = "JSONDecodeError"]
                    /\ pc' = [pc EXCEPT ![s] = "failed"]
                    /\ UNCHANGED << cache, df >>
               ELSE /\ cache' = [valid |-> TRUE,
                                 value |-> Normalize(GetIssues(resp.body)),
                                 at |-> now]
                    /\ df' = [df EXCEPT ![s] =
                                 [bound |-> TRUE,
                                  rows |-> Normalize(GetIssues(resp.body))]]
                    /\ pc' = [pc EXCEPT ![s] = "branch"]
                    /\ error' = error
    /\ UNCHANGED << secrets, now, netCalls, ran, runCalls, warning, calcVars >>

LoadFlow(s) == load_h1_data(s, FlowResponses)

LoadCalc(s) == load_h1_data(s, CalcResponses)

\* if df.empty: st.warning(...)
EmptyState(s) ==
    /\ pc[s] = "branch"
    /\ DfEmpty(df[s].rows)
    /\ warning' = [warning EXCEPT ![s] = TRUE]
    /\ ran' = [ran EXCEPT ![s] = @ \cup {"warning"}]
    /\ pc' = [pc EXCEPT ![s] = "done"]
    /\ UNCHANGED << secrets, now, cache, lock, netCalls, error, runCalls,
                    response, df, calcVars >>

\* else: team_members = sorted(...); selected_user = st.selectbox(...)
\* A DataFrame built from no dicts has no 'assignee' column.
SelectUser(s) ==
    /\ pc[s] = "branch"
    /\ ~DfEmpty(df[s].rows)
    /\ ran' = [ran EXCEPT ![s] = @ \cup {"select"}]
    /\ IF Len(df[s].rows) = 0
       THEN /\ error' = [error EXCEPT ![s] = "KeyError"]
            /\ pc' = [pc EXCEPT ![s] = "failed"]
            /\ UNCHANGED << team_members, selected_user >>
       ELSE /\ team_members' = [team_members EXCEPT ![s] = TeamMembers(df[s].rows)]
            /\ \E k \in 1..Len(TeamMembers(df[s].rows)) :
                   selected_user' =
                       [selected_user EXCEPT ![s] = TeamMembers(df[s].rows)[k]]
            /\ pc' = [pc EXCEPT ![s] = "primary"]
            /\ error' = error
    /\ UNCHANGED << secrets, now, cache, lock, netCalls, runCalls, response,
                    df, warning, total_display_pool, user_closed_display,
                    share_percentage, metric_value, bar_color, summary >>

\* display_df ... share_percentage, st.metric and the colour of the bar.
PrimaryMetrics(s) ==
    /\ pc[s] = "primary"
    /\ LET display_df == DisplayDf(df[s].rows)
           total == Len(display_df)
           closed == UserClosed(display_df, selected_user[s])
       IN  /\ total_display_pool' = [total_display_pool EXCEPT ![s] = total]
           /\ user_closed_display' = [user_closed_display EXCEPT ![s] = closed]
           /\ share_percentage' = [share_percentage EXCEPT ![s] = Share(closed, total)]
           /\ metric_value' =
                 [metric_value EXCEPT ![s] = FormatPercent(Share(closed, total))]
           /\ bar_color' = [bar_color EXCEPT ![s] = BarColor(Share(closed, total))]
    /\ ran' = [ran EXCEPT ![s] = @ \cup {"primary"}]
    /\ pc' = [pc EXCEPT ![s] = "table"]
    /\ UNCHANGED << secrets, now, cache, lock, netCalls, error, runCalls,
                    response, df, warning, team_members, selected_user, summary >>

\* for cat in [...]: summary.append(...); st.table(summary)
BreakdownTable(s) ==
    /\ pc[s] = "table"
    /\ summary' = [summary EXCEPT ![s] =
                      [c \in 1..Len(Categories) |->
                          SummaryRow(df[s].rows, selected_user[s], Categories[c])]]
    /\ ran' = [ran EXCEPT ![s] = @ \cup {"table"}]
    /\ pc' = [pc EXCEPT ![s] = "done"]
    /\ UNCHANGED << secrets, now, cache, lock, netCalls, error, runCalls,
                    response, df, warning, team_members, selected_user,
                    total_display_pool, user_closed_display, share_percentage,
                    metric_value, bar_color >>

\* Streamlit runs the script again from the top on the next interaction.
Rerun(s) ==
    /\ pc[s] \in {"done", "failed"}
    /\ pc' = [pc EXCEPT ![s] = "config"]
    /\ ran' = [ran EXCEPT ![s] = {}]
    /\ error' = [error EXCEPT ![s] = NoError]
    /\ runCalls' = [runCalls EXCEPT ![s] = 0]
    /\ response' = [response EXCEPT ![s] = NoResponse]
    /\ df' = [df EXCEPT ![s] = NoFrame]
    /\ warning' = [warning EXCEPT ![s] = FALSE]
    /\ team_members' = [team_members EXCEPT ![s] = << >>]
    /\ selected_user' = [selected_user EXCEPT ![s] = << >>]
    /\ total_display_pool' = [total_display_pool EXCEPT ![s] = 0]
    /\ user_closed_display' = [user_closed_display EXCEPT ![s] = 0]
    /\ share_percentage' = [share_percentage EXCEPT ![s] = FloatZero]
    /\ metric_value' = [metric_value EXCEPT ![s] = << >>]
    /\ bar_color' = [bar_color EXCEPT ![s] = "none"]
    /\ summary' = [summary EXCEPT ![s] = << >>]
    /\ UNCHANGED << secrets, now, cache, lock, netCalls >>

\* Time passes, whatever the sessions are doing.
Tick ==
    /\ now + TickStep <= MaxTime
    /\ now' = now + TickStep
    /\ UNCHANGED << secrets, cache, lock, netCalls, pc, runVars >>

Next ==
    \/ \E s \in Sessions : ReadSecrets(s)
    \/ \E s \in Sessions : CacheRead(s)
    \/ \E s \in Sessions : SendRequest(s)
    \/ \E s \in Sessions : LoadFlow(s)
    \/ \E s \in Sessions : EmptyState(s)
    \/ \E s \in Sessions : SelectUser(s)
    \/ \E s \in Sessions : PrimaryMetrics(s)
    \/ \E s \in Sessions : BreakdownTable(s)
    \/ \E s \in Sessions : Rerun(s)
    \/ Tick

Spec == Init /\ [][Next]_vars

\* One script run of one session over the larger ticket domain.
CalcSession == "s1"

NextCalc ==
    \/ ReadSecrets(CalcSession)
    \/ CacheRead(CalcSession)
    \/ SendRequest(CalcSession)
    \/ LoadCalc(CalcSession)
    \/ EmptyState(CalcSession)
    \/ SelectUser(CalcSession)
    \/ PrimaryMetrics(CalcSession)
    \/ BreakdownTable(CalcSession)

SpecCalc == Init /\ [][NextCalc]_vars

\* ------------------------------------------------------------------ claims
CalcStages == {"select", "primary", "table"}

\* C1: while a cached snapshot is less than 3600 s old no step of any
\* session makes a network call or changes the cache, and an invocation
\* of load_h1_data that starts then (from the first read of the cache, or
\* from the read under the lock after waiting for another session)
\* returns that snapshot without a network call of its own.
C1_CacheHitWithinWindow ==
    [][ (cache.valid /\ now - cache.at < 3600)
          => /\ netCalls' = netCalls
             /\ cache' = cache
             /\ \A s \in {"s1", "s2"} :
                   (pc[s] \in {"load", "lock"} /\ lock = "free" /\ pc'[s] # pc[s])
                      => /\ pc'[s] = "branch"
                         /\ df'[s] = [bound |-> TRUE, rows |-> cache.value]
                         /\ runCalls'[s] = 0 ]_vars

\* One session fetched, the other was served the same snapshot later, and
\* one network call was made in all.
C1_Witness ==
    /\ pc["s1"] = "branch"
    /\ "post" \in ran["s1"]
    /\ pc["s2"] = "branch"
    /\ "hit" \in ran["s2"]
    /\ runCalls["s2"] = 0
    /\ netCalls = 1
    /\ now > cache.at
    /\ df["s2"].rows = cache.value
    /\ df["s1"].rows = cache.value
    /\ Len(cache.value) > 0

\* C2: an invocation that finds the cached snapshot 3600 s old or older
\* does not return it: the invocation that goes on to compute makes
\* exactly one network call; when that call succeeds its normalised
\* result alone becomes the cached value and the returned table, and when
\* it fails no table is returned and the run makes no second call; a
\* table returned by any invocation is the cached one and is younger than
\* 3600 s.
C2_RefreshAfterExpiry ==
    [][ \A s \in {"s1", "s2"} :
          /\ (pc[s] = "load" /\ cache.valid /\ now - cache.at >= 3600 /\ pc'[s] # "load")
                => /\ pc'[s] = "lock"
                   /\ df'[s].bound = FALSE
                   /\ cache' = cache
          /\ (pc[s] = "lock" /\ cache.valid /\ now - cache.at >= 3600 /\ pc'[s] # "lock")
                => /\ pc'[s] = "posting"
                   /\ netCalls' = netCalls + 1
                   /\ runCalls'[s] = 1
                   /\ df'[s].bound = FALSE
                   /\ cache' = cache
          /\ (pc[s] = "posting" /\ pc'[s] # "posting")
                => /\ netCalls' = netCalls
                   /\ runCalls'[s] = 1
                   /\ IF pc'[s] = "branch"
                      THEN /\ cache' = [valid |-> TRUE,
                                        value |-> Normalize(GetIssues(response'[s].body)),
                                        at |-> now]
                           /\ df'[s] = [bound |-> TRUE, rows |-> cache'.value]
                      ELSE /\ pc'[s] = "failed"
                           /\ df'[s].bound = FALSE
                           /\ cache' = cache
          /\ (df[s].bound = FALSE /\ df'[s].bound)
                => /\ cache'.valid
                   /\ df'[s].rows = cache'.value
                   /\ now' - cache'.at < 3600 ]_vars

\* A second network call replaced an expired snapshot by a different one,
\* stored some time after the request was sent.
C2_Witness ==
    \E s \in {"s1", "s2"} :
        /\ pc[s] = "branch"
        /\ {"expired", "post"} \subseteq ran[s]
        /\ netCalls = 2
        /\ cache.at >= 3600
        /\ df[s].rows = cache.value
        /\ Len(cache.value) > 0

\* C3 as stated: every status outside 200..299 makes the fetch raise.
C3_NonSuccessRaises ==
    \A s \in {"s1", "s2"} :
        ("post" \in ran[s] /\ response[s].status # 0
           /\ ~(response[s].status >= 200 /\ response[s].status < 300))
            => /\ pc[s] = "failed"
               /\ df[s].bound = FALSE
               /\ runCalls[s] = 1
               /\ ran[s] \cap (CalcStages \cup {"warning"}) = {}

\* C3 as amended: a 4xx or 5xx status makes the fetch raise HTTPError: no
\* table is bound, the run made one network call only, and neither the
\* calculation nor the empty-state message is reached.
C3_ErrorStatusRaises ==
    \A s \in {"s1", "s2"} :
        (response[s].status >= 400 /\ response[s].status < 600)
            => /\ pc[s] = "failed"
               /\ error[s] = "HTTPError"
               /\ df[s].bound = FALSE
               /\ runCalls[s] = 1
               /\ warning[s] = FALSE
               /\ summary[s] = << >>
               /\ ran[s] \cap (CalcStages \cup {"warning"}) = {}

C3_Witness ==
    \E s \in {"s1", "s2"} :
        /\ pc[s] = "failed"
        /\ error[s] = "HTTPError"
        /\ response[s].status = 404
        /\ "issues" \in DOMAIN response[s].body
        /\ runCalls[s] = 1
        /\ cache.valid = FALSE

\* C4: a run whose table is empty ends with the empty-state message and
\* without selection, share or summary row; selection, share and summary
\* are only ever produced from a non-empty table.
C4_EmptyShortCircuits ==
    \A s \in {"s1", "s2"} :
        /\ (df[s].bound /\ Len(df[s].rows) = 0)
              => /\ pc[s] \in {"branch", "done"}
                 /\ pc[s] = "done" => warning[s]
                 /\ ran[s] \cap CalcStages = {}
                 /\ team_members[s] = << >>
                 /\ selected_user[s] = << >>
                 /\ metric_value[s] = << >>
                 /\ summary[s] = << >>
        /\ (ran[s] \cap CalcStages # {})
              => /\ df[s].bound
                 /\ Len(df[s].rows) > 0
                 /\ warning[s] = FALSE
        /\ (pc[s] = "done" /\ Len(df[s].rows) > 0) => CalcStages \subseteq ran[s]

C4_Witness ==
    \E s \in {"s1", "s2"} :
        /\ pc[s] = "done"
        /\ df[s].bound
        /\ Len(df[s].rows) = 0
        /\ warning[s]
        /\ "issues" \in DOMAIN response[s].body

\* C9: a network call is made only in a run that has read all three
\* secrets; when one is absent every run fails with KeyError before it.
C9_SecretsBeforeNetwork ==
    /\ \A s \in {"s1", "s2"} :
          /\ pc[s] \in {"lock", "posting"} => "secrets" \in ran[s]
          /\ "post" \in ran[s] => "secrets" \in ran[s]
          /\ "secrets" \in ran[s]
                => {"JIRA_DOMAIN", "JIRA_USER_EMAIL", "JIRA_API_TOKEN"} \subseteq secrets
    /\ netCalls > 0
          => {"JIRA_DOMAIN", "JIRA_USER_EMAIL", "JIRA_API_TOKEN"} \subseteq secrets
    /\ ~({"JIRA_DOMAIN", "JIRA_USER_EMAIL", "JIRA_API_TOKEN"} \subseteq secrets)
          => /\ netCalls = 0
             /\ \A s \in {"s1", "s2"} :
                   /\ pc[s] \in {"config", "failed"}
                   /\ pc[s] = "failed" => error[s] = "KeyError"

C9_Witness ==
    /\ secrets = {"JIRA_DOMAIN", "JIRA_USER_EMAIL"}
    /\ pc["s1"] = "failed"
    /\ error["s1"] = "KeyError"
    /\ pc["s2"] = "failed"
    /\ netCalls = 0

\* ---- the calculation claims, stated on the raw response of the run
\* s contains c as a substring once both are lowercased.
HasSubstringNoCase(s, c) ==
    \E i \in 0..(Len(s) - Len(c)) :
        SubSeq(Lower(s), i + 1, i + Len(c)) = Lower(c)

\* The session of the calculation runs.
S1 == "s1"

\* The rows of the table whose type matches category c.
Matching(c) ==
    { k \in 1..Len(df[S1].rows) : HasSubstringNoCase(df[S1].rows[k].type, c) }

\* Those of them closed by the selected assignee.
Completed(c) ==
    { k \in Matching(c) :
        df[S1].rows[k].assignee = selected_user[S1] /\ df[S1].rows[k].is_closed }

DigitValue(ch) == Ord(ch) - Ord("0")

RECURSIVE DecValue(_)
DecValue(ds) ==
    IF ds = << >> THEN 0
    ELSE 10 * DecValue(SubSeq(ds, 1, Len(ds) - 1)) + DigitValue(ds[Len(ds)])

\* "12.3%" read back as 123 tenths of a percent.
PercentTenths(str) ==
    10 * DecValue(SubSeq(str, 1, Len(str) - 3)) + DigitValue(str[Len(str) - 1])

WellFormedPercent(str) ==
    /\ Len(str) >= 4
    /\ str[Len(str)] = "%"
    /\ str[Len(str) - 2] = "."
    /\ \A k \in (1..(Len(str) - 3)) \cup {Len(str) - 1} :
          str[k] \in {"0", "1", "2", "3", "4", "5", "6", "7", "8", "9"}

\* str shows completed / total * 100 to one decimal, and 0.0% for total 0.
\* A share halfway between two decimals may show either of them: the
\* float of 23 / 80 * 100 lies below 28.75 and shows as 28.7%.
ShowsShare(str, completed, total) ==
    /\ WellFormedPercent(str)
    /\ IF total > 0
       THEN LET d == PercentTenths(str) * total - 1000 * completed
            IN  2 * d <= total /\ 2 * d >= 0 - total
       ELSE PercentTenths(str) = 0

ExampleIssues ==
    IssuesOf(<< [issuetype |-> [name |-> TypeAnzDisplay],
                 assignee |-> [displayName |-> Alice],
                 status |-> [name |-> StatusDone]],
               [issuetype |-> [name |-> TypeUkDisplay],
                 assignee |-> [displayName |-> Bob],
                 status |-> [name |-> StatusOpen]],
               [issuetype |-> [name |-> TypeVideo],
                 assignee |-> [displayName |-> Alice],
                 status |-> [name |-> StatusClosed]] >>)

ExampleRow(c) == SummaryRow(Normalize(ExampleIssues), Alice, c)

ExampleHolds ==
    /\ ExampleRow(Display)["Team Total"] = 2
    /\ ExampleRow(Display)["Your Completed"] = 1
    /\ ExampleRow(Display)["Current Share %"] = << "5", "0", ".", "0", "%" >>
    /\ ExampleRow(Video)["Team Total"] = 1
    /\ ExampleRow(Video)["Your Completed"] = 1
    /\ ExampleRow(Video)["Current Share %"] = << "1", "0", "0", ".", "0", "%" >>
    /\ ExampleRow(Pixel)["Team Total"] = 0
    /\ ExampleRow(Pixel)["Your Completed"] = 0
    /\ ExampleRow(Pixel)["Current Share %"] = << "0", ".", "0", "%" >>

\* C5: once the table is built it has one row per category of
\* [Display, Video, Pixel, Bespoke], in that order, whose Team Total is the
\* number of tickets whose type contains the category ignoring case, whose
\* Your Completed is the number of those closed by the selected assignee,
\* and whose share is completed / total * 100 to one decimal (0.0% for an
\* empty category); the three-ticket example gives 2/1/50.0%, 1/1/100.0%
\* and 0/0/0.0%.
C5_CategorySummary ==
    /\ "table" \in ran[S1]
          => /\ Len(summary[S1]) = 4
             /\ \A c \in 1..4 :
                   LET cat == << Display, Video, Pixel, Bespoke >>[c]
                   IN  /\ summary[S1][c]["Category"] = cat
                       /\ summary[S1][c]["Team Total"] = Cardinality(Matching(cat))
                       /\ summary[S1][c]["Your Completed"] = Cardinality(Completed(cat))
                       /\ ShowsShare(summary[S1][c]["Current Share %"],
                                     Cardinality(Completed(cat)),
                                     Cardinality(Matching(cat)))
             /\ ExampleHolds

\* A ticket counted in two categories, a category without tickets and a
\* category shared half and half.
C5_Witness ==
    /\ pc[S1] = "done"
    /\ "table" \in ran[S1]
    /\ Matching(Display) \cap Matching(Video) # {}
    /\ summary[S1][1]["Team Total"] = 2
    /\ summary[S1][1]["Your Completed"] = 1
    /\ summary[S1][1]["Current Share %"] = << "5", "0", ".", "0", "%" >>
    /\ summary[S1][3]["Team Total"] = 0
    /\ summary[S1][3]["Current Share %"] = << "0", ".", "0", "%" >>

\* C6: the computed counts satisfy 0 <= completed <= total and the share
\* lies in 0..100, for the primary metric and for every row of the table.
C6_ShareBounds ==
    /\ "primary" \in ran[S1]
          => /\ 0 <= user_closed_display[S1]
             /\ user_closed_display[S1] <= total_display_pool[S1]
             /\ FloatAtLeast(share_percentage[S1], 0)
             /\ FloatAtMost(share_percentage[S1], 100)
             /\ PercentTenths(metric_value[S1]) \in 0..1000
    /\ "table" \in ran[S1]
          => \A c \in 1..Len(summary[S1]) :
                /\ 0 <= summary[S1][c]["Your Completed"]
                /\ summary[S1][c]["Your Completed"] <= summary[S1][c]["Team Total"]
                /\ PercentTenths(summary[S1][c]["Current Share %"]) \in 0..1000

\* All of a large pool completed by the selected assignee: the share is
\* exactly 100.
C6_Witness ==
    /\ pc[S1] = "done"
    /\ "table" \in ran[S1]
    /\ user_closed_display[S1] = 80
    /\ total_display_pool[S1] = 80
    /\ FloatAtLeast(share_percentage[S1], 100)
    /\ PercentTenths(summary[S1][1]["Current Share %"]) = 1000
    /\ summary[S1][2]["Team Total"] = 0

\* The issues of the response this run normalised.
RawIssues == GetIssues(response[S1].body)

\* C7: every row's is_closed is TRUE exactly when the lowercased status
\* name of its issue is closed, done or resolved, at every point of the
\* run, the calculation stages included.
C7_IsClosedFromStatus ==
    (df[S1].bound /\ "post" \in ran[S1])
        => /\ Len(df[S1].rows) = Len(RawIssues)
           /\ \A k \in 1..Len(df[S1].rows) :
                 /\ df[S1].rows[k].status = RawIssues[k].fields.status.name
                 /\ df[S1].rows[k].is_closed =
                       (Lower(RawIssues[k].fields.status.name) \in
                          { << "c", "l", "o", "s", "e", "d" >>,
                            << "d", "o", "n", "e" >>,
                            << "r", "e", "s", "o", "l", "v", "e", "d" >> })

C7_Witness ==
    /\ pc[S1] = "done"
    /\ "table" \in ran[S1]
    /\ Len(df[S1].rows) = 2
    /\ df[S1].rows[1].status = StatusResolvedUpper
    /\ df[S1].rows[1].is_closed
    /\ df[S1].rows[2].status = StatusOpen
    /\ df[S1].rows[2].is_closed = FALSE

\* C8: an issue whose assignee is null is normalised without error to a
\* row with assignee "Unassigned"; the selectable assignees are exactly
\* the distinct assignee values of the table; with "Unassigned" selected
\* the completed counts are those of the closed issues without assignee.
C8_UnassignedSentinel ==
    /\ ("post" \in ran[S1] /\ response[S1].status = 200 /\ response[S1].body # NotJson)
          => /\ pc[S1] # "failed"
             /\ df[S1].bound
             /\ Len(df[S1].rows) = Len(RawIssues)
             /\ \A k \in 1..Len(df[S1].rows) :
                   IF RawIssues[k].fields.assignee = Null
                   THEN df[S1].rows[k].assignee = Unassigned
                   ELSE df[S1].rows[k].assignee = RawIssues[k].fields.assignee.displayName
    /\ "select" \in ran[S1]
          => /\ { team_members[S1][k] : k \in 1..Len(team_members[S1]) }
                   = { df[S1].rows[k].assignee : k \in 1..Len(df[S1].rows) }
             /\ \E k \in 1..Len(team_members[S1]) : team_members[S1][k] = selected_user[S1]
    /\ ("table" \in ran[S1] /\ selected_user[S1] = Unassigned)
          => /\ \A c \in 1..4 :
                   summary[S1][c]["Your Completed"] =
                     Cardinality({ k \in 1..Len(RawIssues) :
                        /\ RawIssues[k].fields.assignee = Null
                        /\ HasSubstringNoCase(RawIssues[k].fields.issuetype.name,
                                              Categories[c])
                        /\ df[S1].rows[k].is_closed })
             /\ user_closed_display[S1] =
                     Cardinality({ k \in 1..Len(RawIssues) :
                        /\ RawIssues[k].fields.assignee = Null
                        /\ HasSubstringNoCase(RawIssues[k].fields.issuetype.name,
                                              Display)
                        /\ df[S1].rows[k].is_closed })

C8_Witness ==
    /\ pc[S1] = "done"
    /\ "table" \in ran[S1]
    /\ selected_user[S1] = Unassigned
    /\ Len(team_members[S1]) = 2
    /\ user_closed_display[S1] = 1
    /\ \E k \in 1..Len(RawIssues) : RawIssues[k].fields.assignee = Null
    /\ \E k \in 1..Len(RawIssues) : RawIssues[k].fields.assignee # Null

\* C10: the primary metrics equal the Display row of the table built in
\* the same run: same total, same completed count, same displayed share,
\* and the float share_percentage is that of the row's counts (its whole
\* part brackets completed / total * 100).
C10_PrimaryEqualsDisplayRow ==
    "table" \in ran[S1]
        => /\ summary[S1][1]["Category"] = Display
           /\ total_display_pool[S1] = summary[S1][1]["Team Total"]
           /\ user_closed_display[S1] = summary[S1][1]["Your Completed"]
           /\ metric_value[S1] = summary[S1][1]["Current Share %"]
           /\ LET whole == IF share_percentage[S1].zero \/ share_percentage[S1].e < 0
                            THEN 0
                            ELSE (8192 + share_percentage[S1].l[1])
                                   \div (2 ^ (13 - share_percentage[S1].e))
              IN  IF summary[S1][1]["Team Total"] > 0
                  THEN /\ whole * summary[S1][1]["Team Total"]
                            <= 100 * summary[S1][1]["Your Completed"]
                       /\ 100 * summary[S1][1]["Your Completed"]
                            <= (whole + 1) * summary[S1][1]["Team Total"]
                  ELSE share_percentage[S1].zero

\* 23 of 80: the float of 23 / 80 * 100 is 28.749999999999996, shown as
\* 28.7% by the metric and by the row alike.
C10_Witness ==
    /\ pc[S1] = "done"
    /\ "table" \in ran[S1]
    /\ total_display_pool[S1] = 80
    /\ user_closed_display[S1] = 23
    /\ metric_value[S1] = << "2", "8", ".", "7", "%" >>
    /\ summary[S1][1]["Current Share %"] = << "2", "8", ".", "7", "%" >>

====
